---- MODULE Spec2Model ----
(***************************************************************************)
(* A model of class NLPModel (nlpy/model/nlp.py): the abstract nonlinear   *)
(* optimization problem.  The state is the attribute set of one instance,  *)
(* Init is the state right after __init__, and every method is one action. *)
(*                                                                         *)
(* Numbers.  Bounds are floats in the source; they are integers here, in   *)
(* units of 1e18, so that the sentinel 1e+20 is 100.  Residuals and the    *)
(* stopping tolerances are in units of 1e-7, so that 10^-6 is 10.  Only    *)
(* the order and equality of these numbers is used by the code.            *)
(* Python lists are 0-based: a vector v is the sequence whose element i+1  *)
(* is v[i], and the category lists hold the 0-based indices themselves.    *)
(***************************************************************************)
EXTENDS Integers, Sequences, FiniteSets, TLC

VARIABLES n, m, name, x0, pi0, Lvar, Uvar, Lcon, Ucon,
          lin, nln, net, nlin, nnln, nnet,
          rangeC, lowerC, upperC, equalC, freeC,
          nlowerC, nrangeC, nupperC, nequalC, nfreeC,
          rangeB, lowerB, upperB, fixedB, freeB,
          nlowerB, nrangeB, nupperB, nfixedB, nfreeB, nbounds,
          stop_d, stop_c, stop_p,
          feval, geval, Heval, Hprod, ceval, Jeval, Jprod,
          call, evals

\* The attributes that are not evaluation counters.
attrs == <<n, m, name, x0, pi0, Lvar, Uvar, Lcon, Ucon,
           lin, nln, net, nlin, nnln, nnet,
           rangeC, lowerC, upperC, equalC, freeC,
           nlowerC, nrangeC, nupperC, nequalC, nfreeC,
           rangeB, lowerB, upperB, fixedB, freeB,
           nlowerB, nrangeB, nupperB, nfixedB, nfreeB, nbounds,
           stop_d, stop_c, stop_p>>

\* The seven evaluation counters.
counters == <<feval, geval, Heval, Hprod, ceval, Jeval, Jprod>>

\* call is the last method called with its result; evals is the number of
\* evaluations subclass overrides have counted since construction.
vars == <<attrs, counters, call, evals>>

----------------------------------------------------------------------------
\* Bounds of the model.

\* n + m is at most MaxDim.
MaxDim == 3

\* With no optional overrides, n and m are each at most MaxDefault.
MaxDefault == 3

\* Subclass overrides count at most MaxEvals evaluations.
MaxEvals == 2

----------------------------------------------------------------------------
\* Values of the program.

\* self.Infinity = 1e+20, in units of 1e18.
Infinity == 100

negInfinity == - Infinity

\* math.pow( 10.0, -6.0 ), in units of 1e-7.
StopTol == 10

\* Python's None, and a float v, as residual values.
None == [def |-> FALSE, val |-> 0]

Num(v) == [def |-> TRUE, val |-> v]

\* The interpreters the source runs under.  Python 2 orders None below every
\* number; Python 3 raises TypeError on the comparison.
PythonVersions == {2, 3}

\* The (lower, upper) pairs a caller supplies for one index: free, lower only,
\* upper only, equal, range, inverted range, and bounds beyond the sentinels.
BoundPairs == { <<negInfinity, Infinity>>, <<0, Infinity>>, <<negInfinity, 10>>,
                <<5, 5>>, <<0, 10>>, <<10, 0>>,
                <<2 * negInfinity, 2 * Infinity>> }

\* The residuals a subclass returns: below, at, and above the tolerance.
ResVals == { StopTol - 1, StopTol, StopTol + 1 }

Names == { "Generic" }

\* No keyword argument.
NoKwargs == [k \in {} |-> <<>>]

----------------------------------------------------------------------------
\* Construction.

\* numpy.zeros( k, 'd' )
zeros(k) == [i \in 1..k |-> 0]

\* numpy.ones( k, 'd' )
ones(k) == [i \in 1..k |-> 1]

\* The points and multipliers the methods are called with.
Points(k) == { zeros(k), ones(k) }

\* c * v for a scalar c and a vector v
scale(c, v) == [i \in DOMAIN v |-> c * v[i]]

\* range( k )
range(k) == [i \in 1..k |-> i - 1]

\* kwargs[key] if the key is given, else the default
kwarg(kwargs, key, default) ==
    IF key \in DOMAIN kwargs THEN kwargs[key] ELSE default

\* The five empty lists of a classification pass.
EmptyC == [range |-> <<>>, lower |-> <<>>, upper |-> <<>>,
           equal |-> <<>>, free |-> <<>>]

\* The branch the loop over the constraints takes for index i.
ClassifyCon_strictless(L, U, i) ==
    IF L[i + 1] >= negInfinity /\ U[i + 1] <= Infinity
    THEN IF L[i + 1] = U[i + 1] THEN "equal" ELSE "range"
    ELSE IF L[i + 1] >= negInfinity THEN "lower"
    ELSE IF U[i + 1] <= Infinity THEN "upper"
    ELSE "free"

ClassifyCon_geq(L, U, i) ==
    IF L[i + 1] > negInfinity /\ U[i + 1] < Infinity
    THEN IF L[i + 1] >= U[i + 1] THEN "equal" ELSE "range"
    ELSE IF L[i + 1] > negInfinity THEN "lower"
    ELSE IF U[i + 1] < Infinity THEN "upper"
    ELSE "free"

ClassifyCon(L, U, i) ==
    IF L[i + 1] > negInfinity /\ U[i + 1] < Infinity
    THEN IF L[i + 1] = U[i + 1] THEN "equal" ELSE "range"
    ELSE IF L[i + 1] > negInfinity THEN "lower"
    ELSE IF U[i + 1] < Infinity THEN "upper"
    ELSE "free"

RECURSIVE ConLoop_skiplast(_, _, _, _, _)
ConLoop_skiplast(i, mm, L, U, acc) ==
    IF i >= mm - 1 THEN acc
    ELSE LET k == ClassifyCon(L, U, i)
         IN  ConLoop_skiplast(i + 1, mm, L, U, [acc EXCEPT ![k] = Append(@, i)])

\* for i in range( self.m ): ... append( i )
RECURSIVE ConLoop(_, _, _, _, _)
ConLoop(i, mm, L, U, acc) ==
    IF i >= mm THEN acc
    ELSE LET k == ClassifyCon(L, U, i)
         IN  ConLoop(i + 1, mm, L, U, [acc EXCEPT ![k] = Append(@, i)])

\* The branch the loop over the variables takes for index i.
ClassifyVar(L, U, i) ==
    IF L[i + 1] > negInfinity /\ U[i + 1] < Infinity
    THEN IF L[i + 1] = U[i + 1] THEN "equal" ELSE "range"
    ELSE IF L[i + 1] > negInfinity THEN "lower"
    ELSE IF U[i + 1] < Infinity THEN "upper"
    ELSE "free"

\* for i in range( self.n ): ... append( i )
RECURSIVE VarLoop(_, _, _, _, _)
VarLoop(i, nn, L, U, acc) ==
    IF i >= nn THEN acc
    ELSE LET k == ClassifyVar(L, U, i)
         IN  VarLoop(i + 1, nn, L, U, [acc EXCEPT ![k] = Append(@, i)])

\* self.nbounds = self.n - self.nfreeB
NBounds_total(nn, nfree) == nn

NBounds(nn, nfree) == nn - nfree

\* The default of a missing lower-bound vector of length k.
DefaultLower_zero(k) == zeros(k)

DefaultLower(k) == scale(negInfinity, ones(k))

\* The default of a missing upper-bound vector of length k.
DefaultUpper(k) == scale(Infinity, ones(k))

\* The state after NLPModel( nn, mm, nm, **kwargs ).
NLPModel_init(nn, mm, nm, kwargs) ==
    LET vLvar == kwarg(kwargs, "Lvar", DefaultLower(nn))
        vUvar == kwarg(kwargs, "Uvar", DefaultUpper(nn))
        vLcon == kwarg(kwargs, "Lcon", DefaultLower(mm))
        vUcon == kwarg(kwargs, "Ucon", DefaultUpper(mm))
        C == ConLoop(0, mm, vLcon, vUcon, EmptyC)
        B == VarLoop(0, nn, vLvar, vUvar, EmptyC)
    IN  /\ n = nn /\ m = mm /\ name = nm
        /\ x0 = kwarg(kwargs, "x0", zeros(nn))
        /\ pi0 = kwarg(kwargs, "pi0", zeros(mm))
        /\ Lvar = vLvar /\ Uvar = vUvar
        /\ Lcon = vLcon /\ Ucon = vUcon
        /\ lin = <<>> /\ nln = range(mm) /\ net = <<>>
        /\ nlin = Len(<<>>) /\ nnln = Len(range(mm)) /\ nnet = Len(<<>>)
        /\ rangeC = C.range /\ lowerC = C.lower /\ upperC = C.upper
        /\ equalC = C.equal /\ freeC = C.free
        /\ nlowerC = Len(C.lower) /\ nrangeC = Len(C.range)
        /\ nupperC = Len(C.upper) /\ nequalC = Len(C.equal)
        /\ nfreeC = Len(C.free)
        /\ rangeB = B.range /\ lowerB = B.lower /\ upperB = B.upper
        /\ fixedB = B.equal /\ freeB = B.free
        /\ nlowerB = Len(B.lower) /\ nrangeB = Len(B.range)
        /\ nupperB = Len(B.upper) /\ nfixedB = Len(B.equal)
        /\ nfreeB = Len(B.free)
        /\ nbounds = NBounds(nn, Len(B.free))
        /\ stop_d = StopTol /\ stop_c = StopTol /\ stop_p = StopTol
        /\ feval = 0 /\ geval = 0 /\ Heval = 0 /\ Hprod = 0
        /\ ceval = 0 /\ Jeval = 0 /\ Jprod = 0
        /\ call = [op |-> "__init__", res |-> <<None, None, None>>,
                   ret |-> "None"]
        /\ evals = 0

\* The keyword arguments of a caller who supplies the four bound vectors.
BoundKwargs(bv, bc) ==
    [Lvar |-> [i \in DOMAIN bv |-> bv[i][1]],
     Uvar |-> [i \in DOMAIN bv |-> bv[i][2]],
     Lcon |-> [i \in DOMAIN bc |-> bc[i][1]],
     Ucon |-> [i \in DOMAIN bc |-> bc[i][2]]]

\* Construction with caller-supplied bounds.
Init ==
    \E nn \in 0..MaxDim, mm \in 0..MaxDim, nm \in Names :
        /\ nn + mm <= MaxDim
        /\ \E bv \in [1..nn -> BoundPairs], bc \in [1..mm -> BoundPairs] :
               NLPModel_init(nn, mm, nm, BoundKwargs(bv, bc))

\* Construction with no optional overrides.
InitDefault ==
    \E nn \in 0..MaxDefault, mm \in 0..MaxDefault, nm \in Names :
        NLPModel_init(nn, mm, nm, NoKwargs)

----------------------------------------------------------------------------
\* Methods of the base class.

\* A method that returns r and assigns nothing.
Returns(op, r) ==
    /\ call' = [op |-> op, res |-> <<None, None, None>>, ret |-> r]
    /\ UNCHANGED <<attrs, counters, evals>>

ResetCounters_keepJprod ==
    /\ feval' = 0 /\ geval' = 0 /\ Heval' = 0 /\ Hprod' = 0
    /\ ceval' = 0 /\ Jeval' = 0 /\ Jprod' = Jprod
    /\ call' = [op |-> "ResetCounters", res |-> <<None, None, None>>,
                ret |-> "None"]
    /\ UNCHANGED <<attrs, evals>>

ResetCounters_resetsx0 ==
    /\ feval' = 0 /\ geval' = 0 /\ Heval' = 0 /\ Hprod' = 0
    /\ ceval' = 0 /\ Jeval' = 0 /\ Jprod' = 0
    /\ x0' = zeros(n)
    /\ call' = [op |-> "ResetCounters", res |-> <<None, None, None>>,
                ret |-> "None"]
    /\ UNCHANGED <<n, m, name, pi0, Lvar, Uvar, Lcon, Ucon,
                   lin, nln, net, nlin, nnln, nnet,
                   rangeC, lowerC, upperC, equalC, freeC,
                   nlowerC, nrangeC, nupperC, nequalC, nfreeC,
                   rangeB, lowerB, upperB, fixedB, freeB,
                   nlowerB, nrangeB, nupperB, nfixedB, nfreeB, nbounds,
                   stop_d, stop_c, stop_p, evals>>

ResetCounters ==
    /\ feval' = 0 /\ geval' = 0 /\ Heval' = 0 /\ Hprod' = 0
    /\ ceval' = 0 /\ Jeval' = 0 /\ Jprod' = 0
    /\ call' = [op |-> "ResetCounters", res |-> <<None, None, None>>,
                ret |-> "None"]
    /\ UNCHANGED <<attrs, evals>>

\* return (None, None, None)
OptimalityResiduals ==
    \E x \in Points(n), z \in Points(m) :
        Returns("OptimalityResiduals", "(None, None, None)")

\* a <= b under interpreter py, for a residual a and a tolerance b.
Le(py, a, b) ==
    IF a.def THEN (IF a.val <= b THEN "True" ELSE "False")
    ELSE IF py = 2 THEN "True" ELSE "TypeError"

\* if d <= self.stop_d and c <= self.stop_c and p <= self.stop_p:
\*     return True
\* return False
AtOptimalityRet_strict(py, res) ==
    IF res[1].val < stop_d /\ res[2].val < stop_c /\ res[3].val < stop_p
    THEN "True" ELSE "False"

AtOptimalityRet(py, res) ==
    LET d == Le(py, res[1], stop_d)
        c == Le(py, res[2], stop_c)
        p == Le(py, res[3], stop_p)
    IN  IF d # "True" THEN d
        ELSE IF c # "True" THEN c
        ELSE IF p # "True" THEN p
        ELSE "True"

\* AtOptimality on an instance whose OptimalityResiduals is the base one.
AtOptimality ==
    \E py \in PythonVersions, x \in Points(n), z \in Points(m) :
        LET res == <<None, None, None>>
        IN  /\ call' = [op |-> "AtOptimality", res |-> res,
                        ret |-> AtOptimalityRet(py, res)]
            /\ UNCHANGED <<attrs, counters, evals>>

obj_counting ==
    /\ feval' = feval + 1
    /\ call' = [op |-> "obj", res |-> <<None, None, None>>, ret |-> "None"]
    /\ UNCHANGED <<attrs, geval, Heval, Hprod, ceval, Jeval, Jprod, evals>>

obj == \E x \in Points(n) : Returns("obj", "None")

grad == \E x \in Points(n) : Returns("grad", "None")

cons == \E x \in Points(n) : Returns("cons", "None")

icons == \E i \in 0..m, x \in Points(n) : Returns("icons", "None")

igrad == \E i \in 0..m, x \in Points(n) : Returns("igrad", "None")

sigrad == \E i \in 0..m, x \in Points(n) : Returns("sigrad", "(None, None)")

jac == \E x \in Points(n) : Returns("jac", "None")

hess == \E x \in Points(n), z \in Points(m) : Returns("hess", "None")

hprod == \E x \in Points(n), z \in Points(m), p \in Points(n) :
             Returns("hprod", "None")

Next ==
    \/ ResetCounters
    \/ OptimalityResiduals
    \/ AtOptimality
    \/ obj
    \/ grad
    \/ cons
    \/ icons
    \/ igrad
    \/ sigrad
    \/ jac
    \/ hess
    \/ hprod

\* An instance of the base class, constructed with caller-supplied bounds.
Spec == Init /\ [][Next]_vars

\* An instance of the base class, constructed with no optional overrides.
SpecDefault == InitDefault /\ [][Next]_vars

----------------------------------------------------------------------------
\* A subclass that overrides the evaluation methods and counts its
\* evaluations, as the counters are meant to be used.

\* An override that computes a value and increments one counter.
Counts(op) ==
    /\ evals < MaxEvals
    /\ evals' = evals + 1
    /\ call' = [op |-> op, res |-> <<None, None, None>>, ret |-> "value"]
    /\ UNCHANGED attrs

Sub_obj ==
    /\ Counts("obj") /\ feval' = feval + 1
    /\ UNCHANGED <<geval, Heval, Hprod, ceval, Jeval, Jprod>>

Sub_grad ==
    /\ Counts("grad") /\ geval' = geval + 1
    /\ UNCHANGED <<feval, Heval, Hprod, ceval, Jeval, Jprod>>

Sub_hess ==
    /\ Counts("hess") /\ Heval' = Heval + 1
    /\ UNCHANGED <<feval, geval, Hprod, ceval, Jeval, Jprod>>

Sub_hprod ==
    /\ Counts("hprod") /\ Hprod' = Hprod + 1
    /\ UNCHANGED <<feval, geval, Heval, ceval, Jeval, Jprod>>

Sub_cons ==
    /\ Counts("cons") /\ ceval' = ceval + 1
    /\ UNCHANGED <<feval, geval, Heval, Hprod, Jeval, Jprod>>

Sub_jac ==
    /\ Counts("jac") /\ Jeval' = Jeval + 1
    /\ UNCHANGED <<feval, geval, Heval, Hprod, ceval, Jprod>>

Sub_jprod ==
    /\ Counts("jprod") /\ Jprod' = Jprod + 1
    /\ UNCHANGED <<feval, geval, Heval, Hprod, ceval, Jeval>>

\* AtOptimality on an instance whose OptimalityResiduals is overridden and
\* returns the defined triple (d, c, p).
Sub_AtOptimality ==
    \E py \in PythonVersions, d \in ResVals, c \in ResVals, p \in ResVals :
        LET res == <<Num(d), Num(c), Num(p)>>
        IN  /\ call' = [op |-> "AtOptimality", res |-> res,
                        ret |-> AtOptimalityRet(py, res)]
            /\ UNCHANGED <<attrs, counters, evals>>

\* Construction of a counting subclass instance: the caller supplies the
\* initial point, the multipliers and the same pair of bounds for every index.
InitSub ==
    \E nn \in 0..MaxDim, mm \in 0..MaxDim, nm \in Names, pr \in BoundPairs :
        /\ nn + mm <= MaxDim
        /\ NLPModel_init(nn, mm, nm,
               [x0 |-> ones(nn), pi0 |-> ones(mm),
                Lvar |-> scale(pr[1], ones(nn)), Uvar |-> scale(pr[2], ones(nn)),
                Lcon |-> scale(pr[1], ones(mm)), Ucon |-> scale(pr[2], ones(mm))])

NextSub ==
    \/ Next
    \/ Sub_obj
    \/ Sub_grad
    \/ Sub_hess
    \/ Sub_hprod
    \/ Sub_cons
    \/ Sub_jac
    \/ Sub_jprod

NextRes ==
    \/ Next
    \/ Sub_AtOptimality

\* An instance of a subclass that counts its evaluations.
SpecSub == InitSub /\ [][NextSub]_vars

\* An instance of a subclass that overrides OptimalityResiduals.
SpecRes == InitDefault /\ [][NextRes]_vars

----------------------------------------------------------------------------
\* Properties.

\* The number of positions of list s that hold index i.
Occ(s, i) == Cardinality({j \in DOMAIN s : s[j] = i})

\* The indices a list holds.
Elems(s) == {s[j] : j \in DOMAIN s}

\* The list is in strictly ascending order.
Ascending(s) == \A j \in DOMAIN s : \A k \in DOMAIN s : j < k => s[j] < s[k]

\* A lower bound is finite iff it is above -1e20, an upper bound iff below 1e20.
FiniteLower(v) == v > negInfinity

FiniteUpper(v) == v < Infinity

\* The five lists partition 0..k-1.
Partitions(a, b, c, d, e, k) ==
    /\ \A i \in 0..(k - 1) :
           Occ(a, i) + Occ(b, i) + Occ(c, i) + Occ(d, i) + Occ(e, i) = 1
    /\ Elems(a) \cup Elems(b) \cup Elems(c) \cup Elems(d) \cup Elems(e)
           \subseteq 0..(k - 1)

\* C1: in every reachable state the five constraint categories partition
\* 0..m-1 and their counts sum to m, and the five variable categories
\* partition 0..n-1 and their counts sum to n.
C1_Partition ==
    /\ Partitions(equalC, rangeC, lowerC, upperC, freeC, m)
    /\ nequalC + nrangeC + nlowerC + nupperC + nfreeC = m
    /\ Partitions(fixedB, rangeB, lowerB, upperB, freeB, n)
    /\ nfixedB + nrangeB + nlowerB + nupperB + nfreeB = n

\* Two constraints and a variable in three different categories, after a
\* later method call.
C1_Witness ==
    /\ m = 2 /\ n = 1 /\ call.op = "AtOptimality"
    /\ nequalC = 1 /\ nrangeC = 1 /\ nlowerB = 1

\* List s is the ascending list of the indices i of 0..k-1 whose bounds
\* L[i], U[i] satisfy: lower finite = fl, upper finite = fu, and, when eq is
\* not "any", (lower = upper) = (eq = "yes").
IsCategory(s, k, L, U, fl, fu, eq) ==
    /\ Ascending(s)
    /\ Elems(s) = { i \in 0..(k - 1) :
                      /\ FiniteLower(L[i + 1]) = fl
                      /\ FiniteUpper(U[i + 1]) = fu
                      /\ eq = "yes" => L[i + 1] = U[i + 1]
                      /\ eq = "no" => L[i + 1] # U[i + 1] }
    /\ Len(s) = Cardinality(Elems(s))

\* C2: each category list is the ascending list of exactly the indices that
\* satisfy the classification rule, with strict comparisons against the
\* sentinels and exact equality between the two bounds.
C2_Classification ==
    /\ IsCategory(equalC, m, Lcon, Ucon, TRUE, TRUE, "yes")
    /\ IsCategory(rangeC, m, Lcon, Ucon, TRUE, TRUE, "no")
    /\ IsCategory(lowerC, m, Lcon, Ucon, TRUE, FALSE, "any")
    /\ IsCategory(upperC, m, Lcon, Ucon, FALSE, TRUE, "any")
    /\ IsCategory(freeC, m, Lcon, Ucon, FALSE, FALSE, "any")
    /\ IsCategory(fixedB, n, Lvar, Uvar, TRUE, TRUE, "yes")
    /\ IsCategory(rangeB, n, Lvar, Uvar, TRUE, TRUE, "no")
    /\ IsCategory(lowerB, n, Lvar, Uvar, TRUE, FALSE, "any")
    /\ IsCategory(upperB, n, Lvar, Uvar, FALSE, TRUE, "any")
    /\ IsCategory(freeB, n, Lvar, Uvar, FALSE, FALSE, "any")

\* The three examples of the claim at once: Lcon = (5, 0, -1e20) and
\* Ucon = (5, 10, 10) give equalC = [0], rangeC = [1], upperC = [2].
C2_Witness ==
    /\ m = 3
    /\ Lcon = <<5, 0, negInfinity>> /\ Ucon = <<5, 10, 10>>
    /\ equalC = <<0>> /\ rangeC = <<1>> /\ upperC = <<2>>

\* The base triple is undefined.
BaseResiduals(res) == ~ res[1].def /\ ~ res[2].def /\ ~ res[3].def

\* C3: AtOptimality on the base class, whose residuals are undefined,
\* returns false: it neither returns true nor fails with an error.
C3_BaseReturnsFalse ==
    (call.op = "AtOptimality" /\ BaseResiduals(call.res)) => call.ret = "False"

\* C4: with a defined triple (d, c, p), AtOptimality returns true iff
\* d <= stop_d and c <= stop_c and p <= stop_p, and false otherwise.
C4_DefinedResiduals ==
    (call.op = "AtOptimality" /\ call.res[1].def /\ call.res[2].def
        /\ call.res[3].def)
    => /\ call.ret \in {"True", "False"}
       /\ call.ret = "True" <=> /\ call.res[1].val <= stop_d
                                /\ call.res[2].val <= stop_c
                                /\ call.res[3].val <= stop_p

\* All three residuals exactly at their tolerance: the call returned true.
C4_Witness ==
    /\ call.op = "AtOptimality"
    /\ call.res = <<Num(stop_d), Num(stop_c), Num(stop_p)>>
    /\ call.ret = "True"

AllCountersZero ==
    /\ feval = 0 /\ geval = 0 /\ Heval = 0 /\ Hprod = 0
    /\ ceval = 0 /\ Jeval = 0 /\ Jprod = 0

\* C5: immediately after ResetCounters every one of the seven counters is 0,
\* whatever the subclass counted before.
C5_ResetZeroes == call.op = "ResetCounters" => AllCountersZero

\* A reset after the subclass has counted as many evaluations as it may.
C5_Witness ==
    /\ call.op = "ResetCounters" /\ evals = MaxEvals /\ AllCountersZero

\* C6: no step after construction changes an attribute other than the seven
\* counters.
C6_Frame == [][attrs' = attrs]_vars

\* A subclass instance with supplied bounds and initial point, after
\* evaluations were counted and a base method was called.
C6_Witness ==
    /\ n = 2 /\ m = 1 /\ x0 = <<1, 1>> /\ nrangeB = 2 /\ nbounds = 2
    /\ evals > 0 /\ feval > 0 /\ call.op = "hprod" /\ call.ret = "None"

\* C7: on a base-class instance every counter is 0 in every reachable state.
C7_BaseNeverCounts == AllCountersZero

\* The base obj has been called and the counters are still 0.
C7_Witness == call.op = "obj" /\ n > 0 /\ feval = 0

\* C8: nbounds = n - nfreeB = the number of variables with a finite lower or
\* a finite upper bound = nfixedB + nrangeB + nlowerB + nupperB, within 0..n.
C8_NBounds ==
    /\ nbounds = n - nfreeB
    /\ nbounds = Cardinality({ i \in 0..(n - 1) :
                     FiniteLower(Lvar[i + 1]) \/ FiniteUpper(Uvar[i + 1]) })
    /\ nbounds = nfixedB + nrangeB + nlowerB + nupperB
    /\ 0 <= nbounds /\ nbounds <= n

\* Three variables, one of them free: two are bounded.
C8_Witness == n = 3 /\ nfreeB = 1 /\ nfixedB = 1 /\ nbounds = 2

\* C9: construction with no optional overrides yields zero x0 and pi0, bound
\* vectors at the sentinels, nln = 0..m-1, lin and net empty, every index
\* free, nfreeC = m, nfreeB = n and nbounds = 0.
C9_Defaults ==
    /\ x0 = [i \in 1..n |-> 0] /\ pi0 = [i \in 1..m |-> 0]
    /\ Lvar = [i \in 1..n |-> negInfinity] /\ Uvar = [i \in 1..n |-> Infinity]
    /\ Lcon = [i \in 1..m |-> negInfinity] /\ Ucon = [i \in 1..m |-> Infinity]
    /\ nln = [i \in 1..m |-> i - 1] /\ lin = <<>> /\ net = <<>>
    /\ freeC = [i \in 1..m |-> i - 1] /\ freeB = [i \in 1..n |-> i - 1]
    /\ equalC = <<>> /\ rangeC = <<>> /\ lowerC = <<>> /\ upperC = <<>>
    /\ fixedB = <<>> /\ rangeB = <<>> /\ lowerB = <<>> /\ upperB = <<>>
    /\ nequalC = 0 /\ nrangeC = 0 /\ nlowerC = 0 /\ nupperC = 0
    /\ nfixedB = 0 /\ nrangeB = 0 /\ nlowerB = 0 /\ nupperB = 0
    /\ nfreeC = m /\ nfreeB = n /\ nbounds = 0

\* The construction n = 3, m = 2 with no overrides.
C9_Witness ==
    /\ n = 3 /\ m = 2 /\ call.op = "__init__"
    /\ x0 = <<0, 0, 0>> /\ pi0 = <<0, 0>>
    /\ freeB = <<0, 1, 2>> /\ freeC = <<0, 1>> /\ nln = <<0, 1>>

\* Index i of the five lists is in exactly one of them.
InOne(a, b, c, d, e, i) ==
    Occ(a, i) + Occ(b, i) + Occ(c, i) + Occ(d, i) + Occ(e, i) = 1

\* C10: an index whose lower bound exceeds its upper bound is still in
\* exactly one category, and in the range category when both are finite.
C10_Inverted ==
    /\ \A i \in 0..(m - 1) :
           Lcon[i + 1] > Ucon[i + 1]
           => /\ InOne(equalC, rangeC, lowerC, upperC, freeC, i)
              /\ (FiniteLower(Lcon[i + 1]) /\ FiniteUpper(Ucon[i + 1]))
                     => Occ(rangeC, i) = 1
    /\ \A i \in 0..(n - 1) :
           Lvar[i + 1] > Uvar[i + 1]
           => /\ InOne(fixedB, rangeB, lowerB, upperB, freeB, i)
              /\ (FiniteLower(Lvar[i + 1]) /\ FiniteUpper(Uvar[i + 1]))
                     => Occ(rangeB, i) = 1

\* An inverted constraint and an inverted variable, both classified range.
C10_Witness ==
    /\ m = 1 /\ n = 1
    /\ Lcon = <<10>> /\ Ucon = <<0>> /\ Lvar = <<10>> /\ Uvar = <<0>>
    /\ rangeC = <<0>> /\ rangeB = <<0>>

====
